---- MODULE Spec2Model ----
(***************************************************************************)
(* Model of the two project-file scripts of echo-alert-now:                *)
(*   - XcodeprojGenerator.generate_project_pbxproj (create_xcodeproj.py),  *)
(*     which assembles a project description from discovered files;        *)
(*   - add_files_to_xcode_project (add_autonomous_files.py), which splices *)
(*     new entries into an existing project description.                   *)
(* uuid.uuid4() is modelled as a source of fresh tokens: the k-th call of  *)
(* generate_uuid in a run returns the token k.                             *)
(***************************************************************************)
EXTENDS Integers, Sequences, FiniteSets, TLC

\* ------------------------------------------------------------------ bounds

\* Longest list of discovered .swift files.
MaxFiles == 2

\* Longest list of files_to_add.
MaxAdd == 2

\* Number of times the patcher is run in a row.
MaxRuns == 2

\* Relative paths os.walk may discover (all distinct files of the tree).
SwiftPaths == {"A.swift", "sub/B.swift", "C.swift", "sub/D.swift"}

VARIABLES
    \* ---- XcodeprojGenerator.generate_project_pbxproj
    gpc,              \* position in generate_project_pbxproj
    swift_files,      \* the list built by the os.walk loop
    uuid_calls,       \* number of generate_uuid calls made so far
    uu,               \* the named uuid locals of generate_project_pbxproj
    file_refs,        \* self.file_refs
    build_file_refs,  \* self.build_file_refs
    gi,               \* index of the running for-loop
    gcontent,         \* the text assembled so far, as a sequence of lines
    \* ---- add_files_to_xcode_project
    disk,             \* the text of project.pbxproj on disk, as a sequence of tokens
    files_to_add,     \* the list of {name, path} descriptors
    patch_uuid_calls, \* number of generate_uuid calls made by the patcher so far
    runs,             \* number of runs of the script so far
    raised,           \* the last run ended with an uncaught exception
    log,              \* per completed run: its dicts and the text after every step
    \* ---- XcodeprojGenerator.create_project
    xcodegen,         \* how the xcodegen attempt of create_with_xcodegen ended
    xcrun,            \* how the package-template command of create_manual_project ended
    written           \* the files the script has written and not removed

gvars == <<gpc, swift_files, uuid_calls, uu, file_refs, build_file_refs, gi, gcontent>>

pvars == <<disk, files_to_add, patch_uuid_calls, runs, raised, log>>

cvars == <<xcodegen, xcrun, written>>

vars == <<gvars, pvars, cvars>>

\* ------------------------------------------------------------ generic helpers

Range(s) == {s[i] : i \in DOMAIN s}

NoDup(s) == \A i, j \in DOMAIN s : s[i] = s[j] => i = j

\* The least number of a non-empty set of numbers.
Min(S) == CHOOSE x \in S : \A y \in S : x <= y

\* All sequences over S of length at most n; those without repeated elements.
RECURSIVE SeqsUpTo(_, _)
SeqsUpTo(S, n) ==
    IF n = 0 THEN {<<>>}
    ELSE LET shorter == SeqsUpTo(S, n - 1)
         IN  shorter \cup {Append(s, x) : s \in shorter, x \in S}

DistinctSeqs(S, n) == {s \in SeqsUpTo(S, n) : NoDup(s)}

\* d[k] = v of a Python dict: the key is added or its value replaced.
DictSet(d, k, v) == [x \in DOMAIN d \cup {k} |-> IF x = k THEN v ELSE d[x]]

EmptyDict == [x \in {} |-> 0]

\* -------------------------------------------------- create_xcodeproj.py

\* A collision: every call returns the same token.
generate_uuid_collide(n) == 1

\* generate_uuid: the token returned by the n-th call.
generate_uuid(n) == n

NoUuids == [project_uuid |-> 0, main_group_uuid |-> 0, target_uuid |-> 0,
            build_config_list_uuid |-> 0, app_uuid |-> 0, info_plist_uuid |-> 0,
            frameworks_uuid |-> 0]

GenInit ==
    /\ gpc = "walk"
    /\ swift_files = <<>>
    /\ uuid_calls = 0
    /\ uu = NoUuids
    /\ file_refs = EmptyDict
    /\ build_file_refs = EmptyDict
    /\ gi = 1
    /\ gcontent = <<>>

\* Lines 115-120: the os.walk loop collects the .swift files of the tree.
Walk ==
    /\ gpc = "walk"
    /\ \E fs \in DistinctSeqs(SwiftPaths, MaxFiles) : swift_files' = fs
    /\ gpc' = "header"
    /\ UNCHANGED <<uuid_calls, uu, file_refs, build_file_refs, gi, gcontent, pvars, cvars>>

\* Lines 122-138: four named uuids and the opening of the build-files section.
GenHeader ==
    /\ gpc = "header"
    /\ uu' = [uu EXCEPT !.project_uuid = generate_uuid(uuid_calls + 1),
                        !.main_group_uuid = generate_uuid(uuid_calls + 2),
                        !.target_uuid = generate_uuid(uuid_calls + 3),
                        !.build_config_list_uuid = generate_uuid(uuid_calls + 4)]
    /\ uuid_calls' = uuid_calls + 4
    /\ gcontent' = <<[k |-> "Begin PBXBuildFile section"]>>
    /\ gi' = 1
    /\ gpc' = "build_files"
    /\ UNCHANGED <<swift_files, file_refs, build_file_refs, pvars, cvars>>

\* Lines 141-146: one iteration of the build-files loop.
GenBuildFile ==
    /\ gpc = "build_files"
    /\ gi <= Len(swift_files)
    /\ LET swift_file == swift_files[gi]
           build_file_uuid == generate_uuid(uuid_calls + 1)
           file_ref_uuid == generate_uuid(uuid_calls + 2)
       IN  /\ build_file_refs' = DictSet(build_file_refs, swift_file, build_file_uuid)
           /\ file_refs' = DictSet(file_refs, swift_file, file_ref_uuid)
           /\ gcontent' = Append(gcontent,
                  [k |-> "PBXBuildFile", id |-> build_file_uuid,
                   fileRef |-> file_ref_uuid, name |-> swift_file])
    /\ uuid_calls' = uuid_calls + 2
    /\ gi' = gi + 1
    /\ UNCHANGED <<gpc, swift_files, uu, pvars, cvars>>

\* Lines 148-158: end of the build files, the two fixed file references.
GenFixedFileRefs ==
    /\ gpc = "build_files"
    /\ gi > Len(swift_files)
    /\ LET app_uuid == generate_uuid(uuid_calls + 1)
           info_plist_uuid == generate_uuid(uuid_calls + 2)
       IN  /\ uu' = [uu EXCEPT !.app_uuid = app_uuid,
                               !.info_plist_uuid = info_plist_uuid]
           /\ gcontent' = gcontent \o
                  <<[k |-> "End PBXBuildFile section"],
                    [k |-> "Begin PBXFileReference section"],
                    [k |-> "PBXFileReference", id |-> app_uuid, path |-> "project.app"],
                    [k |-> "PBXFileReference", id |-> info_plist_uuid, path |-> "Info.plist"]>>
    /\ uuid_calls' = uuid_calls + 2
    /\ gi' = 1
    /\ gpc' = "file_refs"
    /\ UNCHANGED <<swift_files, file_refs, build_file_refs, pvars, cvars>>

\* The loop body of lines 160-162 reading the identifier from the wrong dict.
GenFileRef_wrongDict ==
    /\ gpc = "file_refs"
    /\ gi <= Len(swift_files)
    /\ LET swift_file == swift_files[gi]
           file_ref_uuid == build_file_refs[swift_file]
       IN  gcontent' = Append(gcontent,
               [k |-> "PBXFileReference", id |-> file_ref_uuid, path |-> swift_file])
    /\ gi' = gi + 1
    /\ UNCHANGED <<gpc, swift_files, uuid_calls, uu, file_refs, build_file_refs, pvars, cvars>>

\* Lines 160-162: one iteration of the file-references loop.
GenFileRef ==
    /\ gpc = "file_refs"
    /\ gi <= Len(swift_files)
    /\ LET swift_file == swift_files[gi]
           file_ref_uuid == file_refs[swift_file]
       IN  gcontent' = Append(gcontent,
               [k |-> "PBXFileReference", id |-> file_ref_uuid, path |-> swift_file])
    /\ gi' = gi + 1
    /\ UNCHANGED <<gpc, swift_files, uuid_calls, uu, file_refs, build_file_refs, pvars, cvars>>

\* Lines 164-245: frameworks phase, main group, target, project and the head
\* of the sources phase.  The f-string calls generate_uuid in place six times:
\* the two group children (183, 184), the target's Sources build phase (195),
\* the project's buildConfigurationList (222), productRefGroup (231) and the
\* identifier the sources phase is defined under (241).
GenObjects ==
    /\ gpc = "file_refs"
    /\ gi > Len(swift_files)
    /\ LET frameworks_uuid == generate_uuid(uuid_calls + 1)
           child1 == generate_uuid(uuid_calls + 2)
           child2 == generate_uuid(uuid_calls + 3)
           target_sources == generate_uuid(uuid_calls + 4)
           project_config_list == generate_uuid(uuid_calls + 5)
           product_ref_group == generate_uuid(uuid_calls + 6)
           sources_phase == generate_uuid(uuid_calls + 7)
       IN  /\ uu' = [uu EXCEPT !.frameworks_uuid = frameworks_uuid]
           /\ gcontent' = gcontent \o
                  <<[k |-> "End PBXFileReference section"],
                    [k |-> "PBXFrameworksBuildPhase", id |-> frameworks_uuid, files |-> <<>>],
                    [k |-> "PBXGroup", id |-> uu.main_group_uuid,
                     children |-> <<child1, child2>>],
                    [k |-> "PBXNativeTarget", id |-> uu.target_uuid,
                     buildConfigurationList |-> uu.build_config_list_uuid,
                     buildPhases |-> <<target_sources, frameworks_uuid>>,
                     productReference |-> uu.app_uuid],
                    [k |-> "PBXProject", id |-> uu.project_uuid,
                     targetAttributes |-> uu.target_uuid,
                     buildConfigurationList |-> project_config_list,
                     mainGroup |-> uu.main_group_uuid,
                     productRefGroup |-> product_ref_group,
                     targets |-> <<uu.target_uuid>>],
                    [k |-> "PBXSourcesBuildPhase", id |-> sources_phase]>>
    /\ uuid_calls' = uuid_calls + 7
    /\ gi' = 1
    /\ gpc' = "sources"
    /\ UNCHANGED <<swift_files, file_refs, build_file_refs, pvars, cvars>>

\* The loop body of lines 248-250 taking the first file every time.
GenSourceEntry_first ==
    /\ gpc = "sources"
    /\ gi <= Len(swift_files)
    /\ LET swift_file == swift_files[1]
           build_file_uuid == build_file_refs[swift_file]
       IN  gcontent' = Append(gcontent,
               [k |-> "filesEntry", id |-> build_file_uuid, name |-> swift_file])
    /\ gi' = gi + 1
    /\ UNCHANGED <<gpc, swift_files, uuid_calls, uu, file_refs, build_file_refs, pvars, cvars>>

\* Lines 248-250: one iteration of the sources-build-phase loop.
GenSourceEntry ==
    /\ gpc = "sources"
    /\ gi <= Len(swift_files)
    /\ LET swift_file == swift_files[gi]
           build_file_uuid == build_file_refs[swift_file]
       IN  gcontent' = Append(gcontent,
               [k |-> "filesEntry", id |-> build_file_uuid, name |-> swift_file])
    /\ gi' = gi + 1
    /\ UNCHANGED <<gpc, swift_files, uuid_calls, uu, file_refs, build_file_refs, pvars, cvars>>

\* Lines 252-474: the four build configurations, the two configuration lists
\* (the project's one defined under a uuid generated in place, line 459) and
\* the root object; the text is returned.
GenConfigs ==
    /\ gpc = "sources"
    /\ gi > Len(swift_files)
    /\ LET debug_config_uuid == generate_uuid(uuid_calls + 1)
           release_config_uuid == generate_uuid(uuid_calls + 2)
           target_debug_uuid == generate_uuid(uuid_calls + 3)
           target_release_uuid == generate_uuid(uuid_calls + 4)
           project_list == generate_uuid(uuid_calls + 5)
       IN  gcontent' = gcontent \o
               <<[k |-> "filesClose"],
                 [k |-> "XCBuildConfiguration", id |-> debug_config_uuid, name |-> "Debug"],
                 [k |-> "XCBuildConfiguration", id |-> release_config_uuid, name |-> "Release"],
                 [k |-> "XCBuildConfiguration", id |-> target_debug_uuid, name |-> "Debug"],
                 [k |-> "XCBuildConfiguration", id |-> target_release_uuid, name |-> "Release"],
                 [k |-> "XCConfigurationList", id |-> uu.build_config_list_uuid,
                  owner |-> "PBXNativeTarget",
                  buildConfigurations |-> <<target_debug_uuid, target_release_uuid>>],
                 [k |-> "XCConfigurationList", id |-> project_list,
                  owner |-> "PBXProject",
                  buildConfigurations |-> <<debug_config_uuid, release_config_uuid>>],
                 [k |-> "rootObject", ref |-> uu.project_uuid]>>
    /\ uuid_calls' = uuid_calls + 5
    /\ gpc' = "done"
    /\ UNCHANGED <<swift_files, uu, file_refs, build_file_refs, gi, pvars, cvars>>

GenNext ==
    \/ Walk
    \/ GenHeader
    \/ GenBuildFile
    \/ GenFixedFileRefs
    \/ GenFileRef
    \/ GenObjects
    \/ GenSourceEntry
    \/ GenConfigs

\* ---- create_project and its fallback chain

ProjectYml == "project.yml"

ProjectFile == "SignalAir.xcodeproj/project.pbxproj"

SchemeFile == "SignalAir.xcodeproj/xcshareddata/xcschemes/SignalAir.xcscheme"

\* How the attempt of create_with_xcodegen can end: project.yml cannot be
\* written; subprocess.run raises because xcodegen is not installed; xcodegen
\* exits non-zero; xcodegen exits zero.
XcodegenOutcomes == {"open raised", "not installed", "nonzero", "zero"}

\* How subprocess.run of 'xcrun swift package init' can end.
XcrunOutcomes == {"raised", "nonzero", "zero"}

\* The state at the call of create_project on a fresh XcodeprojGenerator.
CreateInit ==
    /\ gpc = "create_project"
    /\ swift_files = <<>>
    /\ uuid_calls = 0
    /\ uu = NoUuids
    /\ file_refs = EmptyDict
    /\ build_file_refs = EmptyDict
    /\ gi = 1
    /\ gcontent = <<>>
    /\ xcodegen = "not run"
    /\ xcrun = "not run"
    /\ written = {}

\* Lines 18-25 and 27-71: create_project calls create_with_xcodegen inside a
\* bare try/except.  On exit status zero project.yml is removed and
\* create_project returns; every other outcome raises out of
\* create_with_xcodegen and the except clause calls create_manual_project.
CreateWithXcodegen ==
    /\ gpc = "create_project"
    /\ \E outcome \in XcodegenOutcomes :
          /\ xcodegen' = outcome
          /\ written' = IF outcome \in {"not installed", "nonzero"}
                        THEN written \cup {ProjectYml}
                        ELSE written \ {ProjectYml}
          /\ gpc' = IF outcome = "zero" THEN "returned" ELSE "create_manual_project"
    /\ UNCHANGED <<swift_files, uuid_calls, uu, file_refs, build_file_refs, gi, gcontent,
                   xcrun, pvars>>

\* Lines 73-88: create_manual_project runs the package-template command inside
\* a try/except.  create_basic_project is called when the command exits
\* non-zero (line 86) or when subprocess.run raises (line 88); when the
\* command exits zero the if of line 84 is false, nothing else is done and
\* the method returns.
CreateManualProject ==
    /\ gpc = "create_manual_project"
    /\ \E outcome \in XcrunOutcomes :
          /\ xcrun' = outcome
          /\ gpc' = IF outcome = "zero" THEN "returned" ELSE "walk"
    /\ UNCHANGED <<swift_files, uuid_calls, uu, file_refs, build_file_refs, gi, gcontent,
                   xcodegen, written, pvars>>

\* Lines 96-111: create_basic_project, after generate_project_pbxproj has
\* returned, writes project.pbxproj, then generate_scheme (three generate_uuid
\* calls, lines 493, 523, 540) and writes the scheme file.
WriteBasicProject ==
    /\ gpc = "done"
    /\ xcodegen # "not run"
    /\ written' = written \cup {ProjectFile, SchemeFile}
    /\ uuid_calls' = uuid_calls + 3
    /\ gpc' = "returned"
    /\ UNCHANGED <<swift_files, uu, file_refs, build_file_refs, gi, gcontent,
                   xcodegen, xcrun, pvars>>

CreateNext ==
    \/ CreateWithXcodegen
    \/ CreateManualProject
    \/ Walk
    \/ GenHeader
    \/ GenBuildFile
    \/ GenFixedFileRefs
    \/ GenFileRef
    \/ GenObjects
    \/ GenSourceEntry
    \/ GenConfigs
    \/ WriteBasicProject

\* -------------------------------------------------- add_autonomous_files.py

\* The text is a sequence of tokens.  A token is a piece of text that the
\* patterns of the script treat as a unit: a run of blanks, a newline, one of
\* the literals the patterns look for, a statement ending in ";", or other text
\* holding neither ";" nor a newline.
Tok(kind) == [k |-> kind, id |-> 0, ref |-> 0, name |-> ""]

TAB == Tok("TAB")
NL == Tok("NL")

\* Tokens made of whitespace only (matched by \s).
IsWs(t) == t.k \in {"TAB", "NL"}

\* Tokens whose last character is ";" and that hold other text before every
\* ";" of theirs: statements, closing ");" and "};", whole definition lines.
EndsSemi(t) == t.k \in {"stmt", ");", "};", "existingFileRef", "existingBuildFile",
                        "fileRefLine", "buildFileLine"}

\* A ";" with nothing before it.
IsBareSemi(t) == t.k = ";"

file_ref_section == Tok("/* End PBXFileReference section */")
build_file_section == Tok("/* End PBXBuildFile section */")
FilesOpen == Tok("files = (")
ChildrenOpen == Tok("children = (")
CoreServices == Tok("Core/Services")
CoreSecurity == Tok("Core/Security")

\* Line 53 after the two tabs: "<id> /* name */ = {isa = PBXFileReference; ... };"
FileRefLine(id, name) == [k |-> "fileRefLine", id |-> id, ref |-> 0, name |-> name]

\* The line of 65 carrying its own identifier where the fileRef belongs.
BuildFileLine_selfRef(id, fileRef, name) ==
    [k |-> "buildFileLine", id |-> id, ref |-> id, name |-> name]

\* Line 65 after the two tabs: "<id> /* name in Sources */ = {isa = PBXBuildFile; fileRef = <ref> /* name */; };"
BuildFileLine(id, fileRef, name) ==
    [k |-> "buildFileLine", id |-> id, ref |-> fileRef, name |-> name]

\* Line 76 after the tabs: "<id> /* name in Sources */,"
SourcesLine(id, name) == [k |-> "sourcesLine", id |-> id, ref |-> 0, name |-> name]

\* Lines 84 and 91 after the tabs: "<id> /* name */,"
GroupLine(id, name) == [k |-> "groupLine", id |-> id, ref |-> 0, name |-> name]

\* "Services" in path / "Security" in path: the path is a sequence of pieces
\* of text, the two words being pieces of their own.
Contains(path, word) == \E i \in DOMAIN path : path[i] = word

\* A generator that returns one token over and over.
patch_generate_uuid_collide(n) == 1

\* generate_uuid of add_autonomous_files.py: the token of the n-th call.
patch_generate_uuid(n) == n

\* Lines 44-46: the two dicts, keyed by file name, filled in list order.
RECURSIVE MintFileRefs(_, _, _, _)
MintFileRefs(files, i, base, d) ==
    IF i > Len(files) THEN d
    ELSE MintFileRefs(files, i + 1, base,
             DictSet(d, files[i].name, patch_generate_uuid(base + 2 * i - 1)))

RECURSIVE MintBuildFiles(_, _, _, _)
MintBuildFiles(files, i, base, d) ==
    IF i > Len(files) THEN d
    ELSE MintBuildFiles(files, i + 1, base,
             DictSet(d, files[i].name, patch_generate_uuid(base + 2 * i)))

\* "\n".join(lines) + "\n", every line starting with its tabs.
RECURSIVE JoinLines(_, _)
JoinLines(lines, i) ==
    IF Len(lines) = 0 THEN <<NL>>
    ELSE IF i > Len(lines) THEN <<>>
    ELSE <<TAB, lines[i], NL>> \o JoinLines(lines, i + 1)

\* The first position from p on that holds token t; 0 if none.
Find(c, p, t) ==
    LET S == {q \in p..Len(c) : c[q] = t}
    IN  IF S = {} THEN 0 ELSE Min(S)

\* The text with every occurrence of the token old replaced by new, the
\* occurrences taken from left to right.
RECURSIVE str_replace_all(_, _, _)
str_replace_all(c, old, new) ==
    LET i == Find(c, 1, old)
    IN  IF i = 0 THEN c
        ELSE SubSeq(c, 1, i - 1) \o new \o str_replace_all(SubSeq(c, i + 1, Len(c)), old, new)

\* A replace that, finding no occurrence, appends the new text at the end.
str_replace_append(c, old, new) ==
    IF Find(c, 1, old) = 0 THEN c \o new ELSE str_replace_all(c, old, new)

\* content.replace(old, new): every occurrence of old is replaced.
str_replace(c, old, new) == str_replace_all(c, old, new)

\* \s* from position p: the first position not holding whitespace.
SkipWs(c, p) == Min({q \in p..(Len(c) + 1) : q > Len(c) \/ ~IsWs(c[q])})

\* The first position from p on whose token ends a [^;]+; piece; 0 if none.
FirstSemi(c, p) ==
    LET S == {q \in p..Len(c) : EndsSemi(c[q]) \/ IsBareSemi(c[q])}
    IN  IF S = {} THEN 0 ELSE Min(S)

\* (?:[^;]+;\s*)* from position p, greedy: pieces are taken as long as some
\* text other than ";" is followed by a ";"; the position after the last one.
RECURSIVE Pieces(_, _)
Pieces(c, p) ==
    IF p > Len(c) \/ IsBareSemi(c[p]) THEN p
    ELSE LET q == FirstSemi(c, p)
         IN  IF q = 0 THEN p ELSE Pieces(c, SkipWs(c, q + 1))

\* .*?children = \( from position p: the first "children = (" before the
\* next newline; 0 if the line holds none.
ChildrenOnLine(c, p) ==
    LET S == {q \in p..Len(c) : c[q] = NL \/ c[q] = ChildrenOpen}
    IN  IF S = {} THEN 0
        ELSE IF c[Min(S)] = ChildrenOpen THEN Min(S) ELSE 0

\* Line 73, sources_pattern: where group 1 of the first match ends (the
\* position the replacement puts its text at); 0 without a match.
SourcesMatchEnd(c) ==
    LET i == Find(c, 1, FilesOpen)
    IN  IF i = 0 THEN 0 ELSE Pieces(c, SkipWs(c, i + 1))

\* Lines 81 and 88, the group patterns: the first anchor that has a
\* "children = (" later on its line starts the match.
RECURSIVE GroupMatchFrom(_, _, _)
GroupMatchFrom(c, p, anchor) ==
    LET i == Find(c, p, anchor)
    IN  IF i = 0 THEN 0
        ELSE LET j == ChildrenOnLine(c, i + 1)
             IN  IF j = 0 THEN GroupMatchFrom(c, i + 1, anchor)
                 ELSE Pieces(c, SkipWs(c, j + 1))

GroupMatchEnd(c, anchor) == GroupMatchFrom(c, 1, anchor)

\* re.sub(pattern, r"\1" + line + "\n", content, count=1) with group 1 of
\* the first match ending before position e (0: no match, the text is kept).
re_sub(c, e, line) ==
    IF e = 0 THEN c
    ELSE SubSeq(c, 1, e - 1) \o <<TAB, line, NL>> \o SubSeq(c, e, Len(c))

\* Lines 52-58.
AddFileRefs(c, files, file_refs_) ==
    LET file_ref_insertions ==
            [i \in DOMAIN files |-> FileRefLine(file_refs_[files[i].name], files[i].name)]
        file_ref_insert_text == JoinLines(file_ref_insertions, 1)
    IN  str_replace(c, file_ref_section, file_ref_insert_text \o <<file_ref_section>>)

\* Lines 64-70.
AddBuildFiles(c, files, file_refs_, build_files) ==
    LET build_file_insertions ==
            [i \in DOMAIN files |->
                BuildFileLine(build_files[files[i].name], file_refs_[files[i].name],
                              files[i].name)]
        build_file_insert_text == JoinLines(build_file_insertions, 1)
    IN  str_replace(c, build_file_section, build_file_insert_text \o <<build_file_section>>)

\* Lines 75-77: one substitution per file, each on the text the previous left.
RECURSIVE AddSources(_, _, _, _)
AddSources(c, files, i, build_files) ==
    IF i > Len(files) THEN c
    ELSE AddSources(
             re_sub(c, SourcesMatchEnd(c),
                    SourcesLine(build_files[files[i].name], files[i].name)),
             files, i + 1, build_files)

\* The group loop without its test of the path: one substitution per file.
RECURSIVE AddToGroup_all(_, _, _, _, _, _)
AddToGroup_all(c, files, i, file_refs_, word, anchor) ==
    IF i > Len(files) THEN c
    ELSE AddToGroup_all(
             re_sub(c, GroupMatchEnd(c, anchor),
                    GroupLine(file_refs_[files[i].name], files[i].name)),
             files, i + 1, file_refs_, word, anchor)

\* Lines 82-85 and 89-92: one substitution per file whose path holds the word.
RECURSIVE AddToGroup(_, _, _, _, _, _)
AddToGroup(c, files, i, file_refs_, word, anchor) ==
    IF i > Len(files) THEN c
    ELSE AddToGroup(
             IF Contains(files[i].path, word)
             THEN re_sub(c, GroupMatchEnd(c, anchor),
                         GroupLine(file_refs_[files[i].name], files[i].name))
             ELSE c,
             files, i + 1, file_refs_, word, anchor)

\* The file does not exist: open() raises FileNotFoundError.
NoFile == <<Tok("no such file")>>

\* Lines 33-96 with the file present: read, five steps, write back.
AddFiles ==
    /\ runs < MaxRuns
    /\ disk # NoFile
    /\ LET content0 == disk
           file_refs_ == MintFileRefs(files_to_add, 1, patch_uuid_calls, EmptyDict)
           build_files == MintBuildFiles(files_to_add, 1, patch_uuid_calls, EmptyDict)
           content1 == AddFileRefs(content0, files_to_add, file_refs_)
           content2 == AddBuildFiles(content1, files_to_add, file_refs_, build_files)
           content3 == AddSources(content2, files_to_add, 1, build_files)
           content4 == AddToGroup(content3, files_to_add, 1, file_refs_,
                                  "Services", CoreServices)
           content5 == AddToGroup(content4, files_to_add, 1, file_refs_,
                                  "Security", CoreSecurity)
       IN  /\ disk' = content5
           /\ log' = Append(log, [file_refs |-> file_refs_, build_files |-> build_files,
                                  steps |-> <<content0, content1, content2, content3,
                                              content4, content5>>])
    /\ patch_uuid_calls' = patch_uuid_calls + 2 * Len(files_to_add)
    /\ runs' = runs + 1
    /\ raised' = FALSE
    /\ UNCHANGED <<files_to_add, gvars, cvars>>

\* Lines 37-38 with the file missing: the exception ends the run.
AddFilesNoFile ==
    /\ runs < MaxRuns
    /\ disk = NoFile
    /\ raised' = TRUE
    /\ runs' = runs + 1
    /\ UNCHANGED <<disk, files_to_add, patch_uuid_calls, log, gvars, cvars>>

\* ------------------------------------------------ the texts patched

ExistingBuildFile == [k |-> "existingBuildFile", id |-> 901, ref |-> 902, name |-> "Old.swift"]
ExistingFileRef == [k |-> "existingFileRef", id |-> 902, ref |-> 0, name |-> "Old.swift"]
ExistingEntry(id) == [k |-> "entry", id |-> id, ref |-> 0, name |-> "Old.swift"]
Text == Tok("text")
Stmt == Tok("stmt")
CloseParen == Tok(");")
CloseBrace == Tok("};")

\* The build-files section, with or without its end marker.
BuildFileSectionText(hasEnd) ==
    <<Text, NL, TAB, ExistingBuildFile, NL>> \o
    (IF hasEnd THEN <<build_file_section, NL>> ELSE <<>>)

\* The file-references section, with or without its end marker.
FileRefSectionText(hasEnd) ==
    <<Text, NL, TAB, ExistingFileRef, NL>> \o
    (IF hasEnd THEN <<file_ref_section, NL>> ELSE <<>>)

\* A build phase: "<id> /* ... */ = {", isa, "files = (", entries, ");", "};".
BuildPhaseText(entries) ==
    <<TAB, Text, NL, TAB, Stmt, NL, TAB, FilesOpen, NL>> \o entries \o
    <<TAB, CloseParen, NL, TAB, CloseBrace, NL>>

\* A group whose anchor and "children = (" are on one line:
\*   "<id> /* Core/Services */ = {isa = PBXGroup; children = (".
GroupOnLineText(anchor) ==
    <<TAB, Text, anchor, Stmt, ChildrenOpen, NL, TAB, ExistingEntry(902), NL,
      TAB, CloseParen, NL, TAB, CloseBrace, NL>>

\* A group in Xcode's layout: the anchor on the first line, "children = ("
\* two lines further down.
GroupMultiLineText(anchor) ==
    <<TAB, Text, anchor, Text, NL, TAB, Stmt, NL, TAB, ChildrenOpen, NL,
      TAB, ExistingEntry(902), NL, TAB, CloseParen, NL, TAB, CloseBrace, NL>>

GroupText(shape, anchor) ==
    CASE shape = "none" -> <<>>
      [] shape = "line" -> GroupOnLineText(anchor)
      [] shape = "multi" -> GroupMultiLineText(anchor)

\* "rootObject = <id> /* Project object */;" and the closing brace.
TailText == <<TAB, Stmt, NL, Text, NL>>

ProjectText(bfEnd, frEnd, frameworks, services, security, sources) ==
    BuildFileSectionText(bfEnd) \o FileRefSectionText(frEnd) \o
    (IF frameworks THEN BuildPhaseText(<<>>) ELSE <<>>) \o
    GroupText(services, CoreServices) \o GroupText(security, CoreSecurity) \o
    (IF sources THEN BuildPhaseText(<<TAB, ExistingEntry(901), NL>>) ELSE <<>>) \o
    TailText

ProjectTexts ==
    {ProjectText(bfEnd, frEnd, frameworks, services, security, sources) :
        bfEnd \in BOOLEAN, frEnd \in BOOLEAN, frameworks \in BOOLEAN,
        services \in {"none", "line", "multi"}, security \in {"none", "line", "multi"},
        sources \in BOOLEAN}

\* Descriptors: a path under Services, one under Security, one under neither,
\* and one under Services whose file name holds the word Security.
Descriptors ==
    {[name |-> "Manager.swift", path |-> <<"Core/", "Services", "/Manager.swift">>],
     [name |-> "Monitor.swift", path |-> <<"Core/", "Security", "/Monitor.swift">>],
     [name |-> "Util.swift", path |-> <<"Core/Util.swift">>],
     [name |-> "SecurityAudit.swift",
      path |-> <<"Core/", "Services", "/", "Security", "Audit.swift">>]}

\* The lists of files_to_add: not empty, no two descriptors of one name.
FileLists ==
    {fl \in DistinctSeqs(Descriptors, MaxAdd) :
        /\ Len(fl) >= 1
        /\ \A i, j \in DOMAIN fl : fl[i].name = fl[j].name => i = j}

PatchInit ==
    /\ disk \in ProjectTexts \cup {NoFile}
    /\ files_to_add \in FileLists
    /\ patch_uuid_calls = 0
    /\ runs = 0
    /\ raised = FALSE
    /\ log = <<>>

PatchNext ==
    \/ AddFiles
    \/ AddFilesNoFile

\* ------------------------------------------------------ specifications

\* The generator alone: the patcher's file is absent and it never runs.
GenIdle ==
    /\ gpc = "idle"
    /\ swift_files = <<>>
    /\ uuid_calls = 0
    /\ uu = NoUuids
    /\ file_refs = EmptyDict
    /\ build_file_refs = EmptyDict
    /\ gi = 1
    /\ gcontent = <<>>

PatchIdle ==
    /\ disk = NoFile
    /\ files_to_add = <<>>
    /\ patch_uuid_calls = 0
    /\ runs = 0
    /\ raised = FALSE
    /\ log = <<>>

\* create_project is not running.
CreateIdle ==
    /\ xcodegen = "not run"
    /\ xcrun = "not run"
    /\ written = {}

InitGen == GenInit /\ PatchIdle /\ CreateIdle

SpecGen == InitGen /\ [][GenNext]_vars

InitPatch == GenIdle /\ PatchInit /\ CreateIdle

SpecPatch == InitPatch /\ [][PatchNext]_vars

\* Descriptor lists in which two descriptors may have one name and different
\* paths: the same file name in two directories.
SameNameDescriptors ==
    Descriptors \cup
        {[name |-> "Manager.swift", path |-> <<"Core/", "Security", "/Manager.swift">>]}

SameNameFileLists == {fl \in DistinctSeqs(SameNameDescriptors, MaxAdd) : Len(fl) >= 1}

PatchInitSameName ==
    /\ disk \in ProjectTexts \cup {NoFile}
    /\ files_to_add \in SameNameFileLists
    /\ patch_uuid_calls = 0
    /\ runs = 0
    /\ raised = FALSE
    /\ log = <<>>

InitPatchSameName == GenIdle /\ PatchInitSameName /\ CreateIdle

SpecPatchSameName == InitPatchSameName /\ [][PatchNext]_vars

\* The script's main: create_project on a fresh generator.
InitCreate == CreateInit /\ PatchIdle

SpecCreate == InitCreate /\ [][CreateNext]_vars

\* ------------------------------------------- reading the generated text

\* The kinds of line that define an object under an identifier.
ObjectKinds == {"PBXBuildFile", "PBXFileReference", "PBXFrameworksBuildPhase",
                "PBXGroup", "PBXNativeTarget", "PBXProject",
                "PBXSourcesBuildPhase", "XCBuildConfiguration",
                "XCConfigurationList"}

\* Positions of the lines of one kind.
LinesOfKind(c, kind) == {i \in DOMAIN c : c[i].k = kind}

\* Positions of the lines that define an object.
ObjectLines(c) == {i \in DOMAIN c : c[i].k \in ObjectKinds}

\* An object of this kind is defined under this identifier.
DefinedAs(c, id, kind) == \E i \in LinesOfKind(c, kind) : c[i].id = id

\* The file list of the sources build phase: the identifiers of its entries.
SourcesFiles(c) ==
    LET entries == SelectSeq(c, LAMBDA l : l.k = "filesEntry")
    IN  [i \in DOMAIN entries |-> entries[i].id]

\* Every identifier a line carries, defined or referenced.
IdsOfLine(l) ==
    CASE l.k = "PBXBuildFile" -> {l.id, l.fileRef}
      [] l.k = "PBXFileReference" -> {l.id}
      [] l.k = "PBXFrameworksBuildPhase" -> {l.id} \cup Range(l.files)
      [] l.k = "PBXGroup" -> {l.id} \cup Range(l.children)
      [] l.k = "PBXNativeTarget" ->
            {l.id, l.buildConfigurationList, l.productReference} \cup Range(l.buildPhases)
      [] l.k = "PBXProject" ->
            {l.id, l.targetAttributes, l.buildConfigurationList, l.mainGroup,
             l.productRefGroup} \cup Range(l.targets)
      [] l.k = "PBXSourcesBuildPhase" -> {l.id}
      [] l.k = "filesEntry" -> {l.id}
      [] l.k = "XCBuildConfiguration" -> {l.id}
      [] l.k = "XCConfigurationList" -> {l.id} \cup Range(l.buildConfigurations)
      [] l.k = "rootObject" -> {l.ref}
      [] OTHER -> {}

AllIds(c) == UNION {IdsOfLine(c[i]) : i \in DOMAIN c}

TargetLine(c) == c[CHOOSE i \in LinesOfKind(c, "PBXNativeTarget") : TRUE]

ProjectLine(c) == c[CHOOSE i \in LinesOfKind(c, "PBXProject") : TRUE]

\* No identifier is the identifier of two objects.
ObjectIdsUnique(c) == \A i, j \in ObjectLines(c) : c[i].id = c[j].id => i = j

\* ------------------------------------------------------------- claims

\* C1: in the returned text the target's buildPhases name the identifiers
\* under which the sources and the frameworks build phases are defined, the
\* target's and the project's buildConfigurationList name the identifiers
\* under which the two XCConfigurationList objects are defined, and no
\* identifier is used for two different entities.
C1_ReferencesResolve ==
    gpc = "done" =>
        LET t == TargetLine(gcontent)
            p == ProjectLine(gcontent)
        IN  /\ Len(t.buildPhases) = 2
            /\ DefinedAs(gcontent, t.buildPhases[1], "PBXSourcesBuildPhase")
            /\ DefinedAs(gcontent, t.buildPhases[2], "PBXFrameworksBuildPhase")
            /\ DefinedAs(gcontent, t.buildConfigurationList, "XCConfigurationList")
            /\ DefinedAs(gcontent, p.buildConfigurationList, "XCConfigurationList")
            /\ t.buildConfigurationList # p.buildConfigurationList
            /\ ObjectIdsUnique(gcontent)

\* C2: the file list of the sources build phase holds the BuildFileEntry
\* identifier of each discovered file exactly once, in discovery order, and
\* nothing else.
C2_SourcesListExact ==
    gpc = "done" =>
        LET src == SourcesFiles(gcontent)
        IN  /\ Len(src) = Len(swift_files)
            /\ NoDup(src)
            /\ \A i \in DOMAIN src :
                   \E j \in LinesOfKind(gcontent, "PBXBuildFile") :
                       /\ gcontent[j].name = swift_files[i]
                       /\ gcontent[j].id = src[i]

C2_Witness == gpc = "done" /\ Len(swift_files) >= 2 /\ Len(SourcesFiles(gcontent)) >= 2

\* C3: every identifier of the sources file list is the identifier of a
\* build-file line, build-file lines have pairwise distinct identifiers, and
\* each fileRef is the identifier of exactly one file-reference line.
C3_ReferentialClosure ==
    gpc = "done" =>
        LET bf == LinesOfKind(gcontent, "PBXBuildFile")
            fr == LinesOfKind(gcontent, "PBXFileReference")
        IN  /\ \A id \in Range(SourcesFiles(gcontent)) :
                   \E j \in bf : gcontent[j].id = id
            /\ \A i, j \in bf : gcontent[i].id = gcontent[j].id => i = j
            /\ \A i \in bf :
                   Cardinality({j \in fr : gcontent[j].id = gcontent[i].fileRef}) = 1

C3_Witness ==
    /\ gpc = "done"
    /\ Cardinality(LinesOfKind(gcontent, "PBXBuildFile")) >= 2
    /\ Len(SourcesFiles(gcontent)) >= 2

\* --------------------------------------------- reading the patched text

\* Positions of a token in a text.
PositionsOf(c, t) == {p \in DOMAIN c : c[p] = t}

\* Positions of the lines of one kind written for one file name.
LinesFor(c, kind, name) == {p \in DOMAIN c : c[p].k = kind /\ c[p].name = name}

\* Number of tokens of one kind.
CountKind(c, kind) == Cardinality({p \in DOMAIN c : c[p].k = kind})

HasToken(c, t) == \E p \in DOMAIN c : c[p] = t

\* The text holds "files = (".
HasFilesList(c) == HasToken(c, FilesOpen)

\* The text holds the anchor with a "children = (" later on the same line.
HasGroupBlock(c, anchor) ==
    \E i, j \in DOMAIN c :
        /\ i < j
        /\ c[i] = anchor
        /\ c[j] = ChildrenOpen
        /\ \A m \in i..j : c[m] # NL

\* The positions strictly inside the list opened at position open: up to the
\* first ");" after it.
InsideList(c, open) ==
    {p \in DOMAIN c : open < p /\ \A q \in (open + 1)..p : c[q] # CloseParen}

\* The position of the first "files = (".
FirstFilesOpen(c) == Min(PositionsOf(c, FilesOpen))

\* The "children = (" of the first group block anchored on anchor.
FirstChildrenOpen(c, anchor) ==
    LET blocks == {j \in PositionsOf(c, ChildrenOpen) :
                      \E i \in PositionsOf(c, anchor) :
                          i < j /\ \A m \in i..j : c[m] # NL}
    IN  Min(blocks)

\* The five anchors of the script.
AllAnchors(c) ==
    /\ HasToken(c, file_ref_section)
    /\ HasToken(c, build_file_section)
    /\ HasFilesList(c)
    /\ HasGroupBlock(c, CoreServices)
    /\ HasGroupBlock(c, CoreSecurity)

NoAnchor(c) ==
    /\ ~HasToken(c, file_ref_section)
    /\ ~HasToken(c, build_file_section)
    /\ ~HasFilesList(c)
    /\ ~HasGroupBlock(c, CoreServices)
    /\ ~HasGroupBlock(c, CoreSecurity)

\* The files of the list whose path holds the word.
FilesWith(word) == {i \in DOMAIN files_to_add : Contains(files_to_add[i].path, word)}

\* C4: with a "files = (" list in the text, every file gets one sources line
\* carrying its BuildFileEntry identifier inside the first such list, after
\* the entries already there and before the closing parenthesis, and nowhere
\* else.
C4_SourcesLineInsideFirstList ==
    \A r \in DOMAIN log :
        LET before == log[r].steps[1]
            after == log[r].steps[6]
        IN  HasFilesList(before) =>
                \A i \in DOMAIN files_to_add :
                    LET name == files_to_add[i].name
                        line == SourcesLine(log[r].build_files[name], name)
                        inside == InsideList(after, FirstFilesOpen(after))
                    IN  /\ Cardinality(PositionsOf(after, line)) = 1
                        /\ \A p \in PositionsOf(after, line) :
                               /\ p \in inside
                               /\ \A q \in inside : after[q].k = "entry" => q < p

\* C5: with both end markers in the text, the first step puts one
\* file-reference line per file right before the file-references end marker,
\* the second one build-file line per file right before the build-files end
\* marker, each referencing the identifier of the file-reference line of the
\* same file; the rest of the text is as it was.
C5_MarkerInsertions ==
    \A r \in DOMAIN log :
        LET c0 == log[r].steps[1]
            c1 == log[r].steps[2]
            c2 == log[r].steps[3]
            n == Len(files_to_add)
            m1 == Find(c0, 1, file_ref_section)
            m2 == Find(c1, 1, build_file_section)
        IN  (HasToken(c0, file_ref_section) /\ HasToken(c0, build_file_section)) =>
                /\ Len(c1) = Len(c0) + 3 * n
                /\ SubSeq(c1, 1, m1 - 1) = SubSeq(c0, 1, m1 - 1)
                /\ SubSeq(c1, m1 + 3 * n, Len(c1)) = SubSeq(c0, m1, Len(c0))
                /\ Len(c2) = Len(c1) + 3 * n
                /\ SubSeq(c2, 1, m2 - 1) = SubSeq(c1, 1, m2 - 1)
                /\ SubSeq(c2, m2 + 3 * n, Len(c2)) = SubSeq(c1, m2, Len(c1))
                /\ \A i \in 1..n :
                       LET fr == c1[m1 + 3 * (i - 1) + 1]
                           bf == c2[m2 + 3 * (i - 1) + 1]
                       IN  /\ c1[m1 + 3 * (i - 1)] = TAB
                           /\ fr.k = "fileRefLine"
                           /\ fr.name = files_to_add[i].name
                           /\ fr.id = log[r].file_refs[files_to_add[i].name]
                           /\ c1[m1 + 3 * (i - 1) + 2] = NL
                           /\ c2[m2 + 3 * (i - 1)] = TAB
                           /\ bf.k = "buildFileLine"
                           /\ bf.name = files_to_add[i].name
                           /\ bf.id = log[r].build_files[files_to_add[i].name]
                           /\ bf.ref = fr.id
                           /\ bf.id # fr.id
                           /\ c2[m2 + 3 * (i - 1) + 2] = NL

C5_Witness ==
    \E r \in DOMAIN log :
        /\ HasToken(log[r].steps[1], file_ref_section)
        /\ HasToken(log[r].steps[1], build_file_section)
        /\ Len(files_to_add) >= 2
        /\ Len(log[r].steps[3]) = Len(log[r].steps[1]) + 6 * Len(files_to_add)

\* C6: with a group block anchored on Core/Services in the text, a file whose
\* path holds "Services" gets exactly one line carrying its FileReference
\* identifier inside the child list of the first such block, and none inside
\* the child list of a Core/Security block unless its path also holds
\* "Security"; the same with the two words exchanged.
C6_GroupLineInsideChildList ==
    \A r \in DOMAIN log :
        LET before == log[r].steps[1]
            after == log[r].steps[6]
            Placed(i, word, anchor, otherWord, otherAnchor) ==
                LET name == files_to_add[i].name
                    line == GroupLine(log[r].file_refs[name], name)
                IN  (Contains(files_to_add[i].path, word) /\ HasGroupBlock(before, anchor)) =>
                        /\ Cardinality(PositionsOf(after, line) \cap
                               InsideList(after, FirstChildrenOpen(after, anchor))) = 1
                        /\ (HasGroupBlock(before, otherAnchor)
                            /\ ~Contains(files_to_add[i].path, otherWord)) =>
                               PositionsOf(after, line) \cap
                                   InsideList(after, FirstChildrenOpen(after, otherAnchor)) = {}
        IN  \A i \in DOMAIN files_to_add :
                /\ Placed(i, "Services", CoreServices, "Security", CoreSecurity)
                /\ Placed(i, "Security", CoreSecurity, "Services", CoreServices)

\* C7: a step whose anchor is absent from the text it receives raises nothing
\* and returns that text as it is, the steps whose anchors are present add
\* their lines, and with no anchor at all the text written equals the text
\* read.
C7_AbsentAnchorNoOp ==
    /\ disk # NoFile => (~raised /\ Len(log) = runs)
    /\ \A r \in DOMAIN log :
        LET c0 == log[r].steps[1]
            c1 == log[r].steps[2]
            c2 == log[r].steps[3]
            c3 == log[r].steps[4]
            c4 == log[r].steps[5]
            c5 == log[r].steps[6]
            n == Len(files_to_add)
        IN  /\ IF HasToken(c0, file_ref_section)
               THEN CountKind(c1, "fileRefLine") = CountKind(c0, "fileRefLine") + n
               ELSE c1 = c0
            /\ IF HasToken(c1, build_file_section)
               THEN CountKind(c2, "buildFileLine") = CountKind(c1, "buildFileLine") + n
               ELSE c2 = c1
            /\ IF HasFilesList(c2)
               THEN CountKind(c3, "sourcesLine") = CountKind(c2, "sourcesLine") + n
               ELSE c3 = c2
            /\ IF HasGroupBlock(c3, CoreServices)
               THEN CountKind(c4, "groupLine") =
                        CountKind(c3, "groupLine") + Cardinality(FilesWith("Services"))
               ELSE c4 = c3
            /\ IF HasGroupBlock(c4, CoreSecurity)
               THEN CountKind(c5, "groupLine") =
                        CountKind(c4, "groupLine") + Cardinality(FilesWith("Security"))
               ELSE c5 = c4
            /\ NoAnchor(c0) => c5 = c0
            /\ r = Len(log) => disk = c5

C7_Witness ==
    \E r \in DOMAIN log :
        /\ ~HasToken(log[r].steps[1], file_ref_section)
        /\ ~HasGroupBlock(log[r].steps[1], CoreServices)
        /\ HasFilesList(log[r].steps[3])
        /\ log[r].steps[2] = log[r].steps[1]
        /\ log[r].steps[4] # log[r].steps[3]
        /\ ~raised

\* C8: two runs in a row with the same list on a text holding the anchors
\* leave two copies of every inserted line of every file (file-reference,
\* build-file, sources-list, and group lines for every anchor that applies to
\* the file), those of the second run under identifiers other than those of
\* the first.
C8_TwoRunsDuplicate ==
    (Len(log) = 2 /\ AllAnchors(log[1].steps[1])) =>
        \A i \in DOMAIN files_to_add :
            LET name == files_to_add[i].name
                path == files_to_add[i].path
                groups == (IF Contains(path, "Services") THEN 1 ELSE 0)
                          + (IF Contains(path, "Security") THEN 1 ELSE 0)
                fr1 == log[1].file_refs[name]
                fr2 == log[2].file_refs[name]
                bf1 == log[1].build_files[name]
                bf2 == log[2].build_files[name]
            IN  /\ fr1 # fr2
                /\ bf1 # bf2
                /\ Cardinality(LinesFor(disk, "fileRefLine", name)) = 2
                /\ Cardinality(PositionsOf(disk, FileRefLine(fr1, name))) = 1
                /\ Cardinality(PositionsOf(disk, FileRefLine(fr2, name))) = 1
                /\ Cardinality(LinesFor(disk, "buildFileLine", name)) = 2
                /\ Cardinality(PositionsOf(disk, BuildFileLine(bf1, fr1, name))) = 1
                /\ Cardinality(PositionsOf(disk, BuildFileLine(bf2, fr2, name))) = 1
                /\ Cardinality(LinesFor(disk, "sourcesLine", name)) = 2
                /\ Cardinality(PositionsOf(disk, SourcesLine(bf1, name))) = 1
                /\ Cardinality(PositionsOf(disk, SourcesLine(bf2, name))) = 1
                /\ Cardinality(LinesFor(disk, "groupLine", name)) = 2 * groups
                /\ Cardinality(PositionsOf(disk, GroupLine(fr1, name))) = groups
                /\ Cardinality(PositionsOf(disk, GroupLine(fr2, name))) = groups

C8_Witness ==
    /\ Len(log) = 2
    /\ AllAnchors(log[1].steps[1])
    /\ \E i \in DOMAIN files_to_add :
           Cardinality(LinesFor(disk, "groupLine", files_to_add[i].name)) = 2

\* C9: a file whose path holds neither "Services" nor "Security" gets no
\* group line, and gets its file-reference, build-file and sources-list lines
\* as the files with a matching path do: one of each per run whose anchor is
\* there.
C9_UnmatchedPathNoGroupLine ==
    \A r \in DOMAIN log :
        LET c0 == log[r].steps[1]
            after == log[r].steps[6]
            Added(kind, name) ==
                Cardinality(LinesFor(after, kind, name)) - Cardinality(LinesFor(c0, kind, name))
        IN  \A i \in DOMAIN files_to_add :
                LET f == files_to_add[i]
                IN  (~Contains(f.path, "Services") /\ ~Contains(f.path, "Security")) =>
                        /\ LinesFor(after, "groupLine", f.name) = {}
                        /\ PositionsOf(after, GroupLine(log[r].file_refs[f.name], f.name)) = {}
                        /\ Added("fileRefLine", f.name) =
                               (IF HasToken(c0, file_ref_section) THEN 1 ELSE 0)
                        /\ Added("buildFileLine", f.name) =
                               (IF HasToken(c0, build_file_section) THEN 1 ELSE 0)
                        /\ Added("sourcesLine", f.name) =
                               (IF HasFilesList(c0) THEN 1 ELSE 0)
                        /\ \A j \in DOMAIN files_to_add :
                               \A kind \in {"fileRefLine", "buildFileLine", "sourcesLine"} :
                                   Added(kind, files_to_add[j].name) = Added(kind, f.name)

C9_Witness ==
    \E r \in DOMAIN log : \E i, j \in DOMAIN files_to_add :
        /\ AllAnchors(log[r].steps[1])
        /\ ~Contains(files_to_add[i].path, "Services")
        /\ ~Contains(files_to_add[i].path, "Security")
        /\ Contains(files_to_add[j].path, "Services")
        /\ LinesFor(log[r].steps[6], "groupLine", files_to_add[j].name) # {}
        /\ LinesFor(log[r].steps[6], "sourcesLine", files_to_add[i].name) # {}

\* C10: a call on N files makes 2N + 18 calls of generate_uuid (two in the
\* build-files loop, eighteen outside every loop), and with fresh tokens the
\* identifiers of the output are as many as the calls and no two objects
\* share one.
C10_UuidCount ==
    gpc = "done" =>
        /\ uuid_calls = 2 * Len(swift_files) + 18
        /\ Cardinality(AllIds(gcontent)) = uuid_calls
        /\ ObjectIdsUnique(gcontent)

C10_Witness == gpc = "done" /\ Len(swift_files) >= 2 /\ uuid_calls >= 22


\* ---------------------------------------------------------------- C11

\* create_basic_project has run to its end: both files are on disk.
BasicProjectWritten == {ProjectFile, SchemeFile} \subseteq written

\* C11: whenever create_project has returned after a failed xcodegen attempt
\* (tool not installed, non-zero exit, or any other exception), the manual
\* assembly has run and the project file and the scheme file have been
\* written, whatever the outcome of the package-template command.
C11_FallbackWritesProject ==
    (gpc = "returned" /\ xcodegen \in XcodegenOutcomes \ {"zero"})
        => BasicProjectWritten

\* ---------------------------------------------------------------- C12

\* The identifiers a text defines by file-reference lines, by build-file lines.
FileRefIdsDefined(c) ==
    {c[p].id : p \in {q \in DOMAIN c : c[q].k \in {"fileRefLine", "existingFileRef"}}}

BuildFileIdsDefined(c) ==
    {c[p].id : p \in {q \in DOMAIN c : c[q].k \in {"buildFileLine", "existingBuildFile"}}}

\* The lines of one kind in the text that carry a BuildFileEntry identifier
\* minted by run r.
AddedBy(r, c, kind) ==
    {p \in DOMAIN c : c[p].k = kind /\ c[p].id \in Range(log[r].build_files)}

\* C12: whatever anchors the input text holds, in the text a run writes every
\* build-file line the run added references a FileReference identifier that a
\* file-reference line of that text defines, and every identifier the run
\* added to a build-phase file list is defined by a build-file line of that
\* text.
C12_AddedLinesResolve ==
    \A r \in DOMAIN log :
        LET out == log[r].steps[6]
        IN  /\ \A p \in AddedBy(r, out, "buildFileLine") :
                   out[p].ref \in FileRefIdsDefined(out)
            /\ \A p \in AddedBy(r, out, "sourcesLine") :
                   out[p].id \in BuildFileIdsDefined(out)

\* ---------------------------------------------------------------- C13

\* The identifiers of the lines of one kind that are in text c1 and whose
\* identifier is on no line of that kind in text c0.
NewIds(c0, c1, kind) ==
    {c1[p].id : p \in {q \in DOMAIN c1 : c1[q].k = kind}}
        \ {c0[p].id : p \in {q \in DOMAIN c0 : c0[q].k = kind}}

\* C13: in every run, also with two descriptors of one name and different
\* paths, the lines of two different descriptors carry different
\* FileReference identifiers and different BuildFileEntry identifiers, and
\* with both end markers in the text the run inserts as many distinct
\* identifiers of each kind as there are descriptors.
C13_OwnIdentifiers ==
    \A r \in DOMAIN log :
        LET c0 == log[r].steps[1]
            c2 == log[r].steps[3]
        IN  /\ \A i, j \in DOMAIN files_to_add :
                   i # j =>
                      /\ log[r].file_refs[files_to_add[i].name]
                            # log[r].file_refs[files_to_add[j].name]
                      /\ log[r].build_files[files_to_add[i].name]
                            # log[r].build_files[files_to_add[j].name]
            /\ (HasToken(c0, file_ref_section) /\ HasToken(c0, build_file_section)) =>
                   /\ Cardinality(NewIds(c0, c2, "fileRefLine")) = Len(files_to_add)
                   /\ Cardinality(NewIds(c0, c2, "buildFileLine")) = Len(files_to_add)
====
